---- MODULE Spec2Model ----
(***************************************************************************)
(* The search pages of MALCHA-DAGU (SearchResultPage, CategoryPage), the   *)
(* search query cache they read through useSearch, the minimum-loading     *)
(* loader, and the mutation hooks with their cache invalidation.           *)
(*                                                                         *)
(* The cache is the @tanstack/react-query (v5: gcTime) QueryClient of      *)
(* App.tsx.  Its behaviour is modelled as the hooks of hooks/useSearch use *)
(* it: one entry per queryKey, one retryer per entry, invalidateQueries    *)
(* and refetchQueries with their default cancelRefetch: true, and          *)
(* api.search, which takes no AbortSignal, so a cancelled fetch leaves its *)
(* HTTP call outstanding.                                                  *)
(*                                                                         *)
(* A step of the model is one task-queue callback (a UI event, a timer, a  *)
(* response) together with the React commit it causes: the render and the  *)
(* passive effects whose dependencies changed.                             *)
(***************************************************************************)
EXTENDS Integers, Sequences, FiniteSets, TLC

\* ---------------------------------------------------------------- bounds

\* Cancelled api.search calls still outstanding, over all queries.
MaxDropped == 1
\* Mutation requests in flight at once, over all five mutations.
MaxMutations == 1
\* Phrases in the body of an error response.
MaxPhrases == 1
\* Pieces a link text is put together from.
MaxChunks == 3
\* Item prices run from 0 to MaxPrice.
MaxPrice == 17
\* Pieces typed into the link input of the register form.
MaxTyped == 2
\* Characters of a query text.
MaxQueryLen == 2

\* Non-empty query strings; "" is the empty query.
Queries == {"a", "b"}
AllQueries == Queries \cup {""}

Kinds == {"create", "click", "extend", "report", "price"}

VARIABLES
    page,             \* the route rendered: "home", "search", "category"
    query,            \* SearchResultPage.query / CategoryPage.rawQuery
    showLoader,       \* useState(true)
    minTimeElapsed,   \* useState(false)
    timer,            \* the setTimeout of the minimum-loading effect is pending
    cache,            \* the ['search', q] entries of the QueryClient
    dropped,          \* cancelled api.search calls still outstanding, per query
    isLoggedIn,       \* useAuth().isLoggedIn
    authPending,      \* the /auth/check/ call of this mount is outstanding
    modal,            \* showRegisterModal
    pending,          \* mutation requests in flight, per mutation
    observed,         \* the newest request of a mutation still has its mutate() callbacks
    last,             \* the callback that ran last and the effects it issued, in order
    call,             \* a function of a component and the arguments it is called with
    result,           \* what the call returned
    link,             \* RegisterModal: useState('') link
    detectedSource,   \* RegisterModal: useState('other') detectedSource
    request,          \* what a handler passed to mutate(): RegisterModal.handleSubmit, ItemCard
    card,             \* ItemCard: showReportModal, showPriceModal, newPrice
    bar               \* SearchBar: query, debounce timers, requests, suggestions

\* The state of the pages and of the query cache.
app == <<page, query, showLoader, minTimeElapsed, timer, cache, dropped,
         isLoggedIn, authPending, modal, pending, observed, last>>

\* The state of one component looked at on its own: a call of one of its
\* functions, and the form of the register modal.
parts == <<call, result, link, detectedSource, request, card, bar>>

vars == <<app, parts>>

\* ------------------------------------------------------------ query cache

\* data === undefined.  The data of an entry is the SearchResult of a
\* response, told apart by SearchResult.query, the query it answers.
NoData == ""

\* No entry for the key.  queryFn is the query that the entry's queryFn,
\* () => api.search(query), closes over: the one of its last observer.
Absent == [exists |-> FALSE, queryFn |-> "", data |-> NoData, status |-> "pending",
           fetchStatus |-> "idle", isInvalidated |-> FALSE]

\* Variant: one key for every query, queryKey: ['search'].
QueryKey_shared(q) == "a"

\* queryKey: ['search', query]
QueryKey(q) == q

\* Variant: an observer that is enabled for every query.
Enabled_always(q) == TRUE

\* enabled: options?.enabled ?? query.length > 0
Enabled(q) == q # ""

\* No key: the home page has no useSearch observer.
NoKey == "-"

\* The key of the entry the useSearch observer of the mounted page is
\* attached to, enabled or not.
ObservedOf(p, q) == IF p \in {"search", "category"} THEN QueryKey(q) ELSE NoKey

\* The key the mounted page fetches: the one of its observer when that is
\* enabled (Query.isActive).
ActiveOf(p, q) == IF p \in {"search", "category"} /\ Enabled(q) THEN QueryKey(q) ELSE NoKey

Active == ActiveOf(page, query)

\* Variant: a fetch that starts from the initial state, as resetQueries does.
FetchState_reset(e) ==
    [e EXCEPT !.exists = TRUE, !.fetchStatus = "fetching",
              !.data = NoData, !.status = "pending"]

\* Query.fetch: the state an entry takes when a fetch starts (fetchState):
\* an entry without data goes back to pending and drops its error.
FetchState(e) ==
    [e EXCEPT !.exists = TRUE,
              !.fetchStatus = "fetching",
              !.status = IF e.data = NoData THEN "pending" ELSE e.status]

\* Query.fetch on an entry e with n cancelled calls outstanding.  While a
\* fetch is running, a caller is attached to it, unless the entry has data
\* and the caller asks cancelRefetch: then the running fetch is cancelled
\* silently and a new one starts.  queryFn (api.search) ignores the signal:
\* the HTTP call of the cancelled fetch stays outstanding.
Fetch(e, n, cancelRefetch) ==
    IF e.fetchStatus = "fetching"
    THEN IF e.data # NoData /\ cancelRefetch
         THEN [e |-> FetchState(e), n |-> n + 1]
         ELSE [e |-> e, n |-> n]
    ELSE [e |-> FetchState(e), n |-> n]

\* A store is the part of the state the handlers of a callback act on.
Store == [cache |-> cache, dropped |-> dropped, modal |-> modal,
          observer |-> ObservedOf(page, query), active |-> Active]

\* Query.isDisabled: an entry with an observer is disabled when the observer
\* is; one without observers when it never settled a fetch
\* (dataUpdateCount + errorUpdateCount === 0).
IsDisabled(s, k) ==
    IF k = s.observer THEN k # s.active
    ELSE s.cache[k].data = NoData /\ s.cache[k].status = "pending"

\* queryClient.refetchQueries({ queryKey: ['search'] }): every search entry
\* that is not disabled, with or without observers (type defaults to 'all'),
\* cancelRefetch: true.
RefetchSearch(s) ==
    LET r(k) == IF s.cache[k].exists /\ ~IsDisabled(s, k)
                THEN Fetch(s.cache[k], s.dropped[k], TRUE)
                ELSE [e |-> s.cache[k], n |-> s.dropped[k]]
    IN [s EXCEPT !.cache = [k \in AllQueries |-> r(k).e],
                 !.dropped = [k \in AllQueries |-> r(k).n]]

\* queryClient.invalidateQueries({ queryKey: ['search'] }): every search
\* entry is flagged, and the one with an observer (refetchType 'active') is
\* refetched at once, cancelRefetch: true.
InvalidateSearch(s, act) ==
    LET f(k) == [s.cache[k] EXCEPT !.isInvalidated = s.cache[k].exists]
        r(k) == IF s.cache[k].exists /\ k = act THEN Fetch(f(k), s.dropped[k], TRUE)
                ELSE [e |-> f(k), n |-> s.dropped[k]]
    IN [s EXCEPT !.cache = [k \in AllQueries |-> r(k).e],
                 !.dropped = [k \in AllQueries |-> r(k).n]]

\* queryClient.invalidateQueries({ queryKey: ['userItems'] }): no component
\* calls useUserItems, the cache holds no such entry to flag or refetch.
InvalidateUserItems(s) == s

\* The observer of useSearch(q) attaches to the entry e of its key (mount, or
\* a change of key): the entry is built when absent, takes the observer's
\* queryFn, and is fetched when it has no data, is invalidated, or is older
\* than staleTime (aged).
Subscribe(e, q, n, aged) ==
    LET o == [e EXCEPT !.exists = TRUE, !.queryFn = q]
    IN IF ~e.exists \/ e.data = NoData \/ e.isInvalidated \/ aged
       THEN Fetch(o, n, FALSE)
       ELSE [e |-> o, n |-> n]

\* The observer of useSearch(q) attaches to the entry e of its key.  A
\* disabled observer (enabled: false) builds the entry and fetches nothing.
Attach(e, q, n, aged) ==
    IF Enabled(q) THEN Subscribe(e, q, n, aged)
    ELSE [e |-> [e EXCEPT !.exists = TRUE, !.queryFn = q], n |-> n]

\* The api.search calls for key k that are outstanding: the call of the
\* entry's running fetch and the cancelled ones.
Calls(k) == dropped[k] + (IF cache[k].fetchStatus = "fetching" THEN 1 ELSE 0)

\* useSearch(query).isLoading: isFetching && isPending
IsLoading(c, p, q) ==
    /\ ActiveOf(p, q) # NoKey
    /\ c[ActiveOf(p, q)].status = "pending"
    /\ c[ActiveOf(p, q)].fetchStatus = "fetching"

\* useSearch(query).isError
IsError(c, p, q) == ActiveOf(p, q) # NoKey /\ c[ActiveOf(p, q)].status = "error"

\* useSearch(query).data
SearchData(c, p, q) == IF ActiveOf(p, q) # NoKey THEN c[ActiveOf(p, q)].data ELSE NoData

\* ------------------------------------------------------------ the loader

\* SearchResultPage and CategoryPage render the same two effects.  One React
\* commit after a callback: `same` says the component instance of the
\* previous commit is still mounted, (q0, l0, m0) are the dependencies of
\* that commit, (q1, l1, m1) those of this render, s1 and t1 the loader flag
\* and the pending timer before the effects run.  An effect runs when the
\* component mounts or one of its dependencies changed, with the values of
\* this render; the state updates of one commit are applied in call order.
\* (Commit_tracking is the variant whose second effect sets the loader to
\* isLoading || !minTimeElapsed.)
\*   effect [query]:  if (!query) return; setShowLoader(true);
\*                    setMinTimeElapsed(false); setTimeout(...);
\*                    cleanup: clearTimeout(timer)
\*   effect [isLoading, minTimeElapsed]:
\*                    if (!isLoading && minTimeElapsed) setShowLoader(false)
\* The render that follows changes nothing more: its minTimeElapsed is the
\* one of this render or false.
Commit_tracking(same, q0, l0, m0, q1, l1, m1, s1, t1) ==
    LET runQuery == ~same \/ q1 # q0
        runHide == ~same \/ l1 # l0 \/ m1 # m0
        a == IF runQuery
             THEN IF q1 # "" THEN [s |-> TRUE, m |-> FALSE, t |-> TRUE]
                  ELSE [s |-> s1, m |-> m1, t |-> FALSE]
             ELSE [s |-> s1, m |-> m1, t |-> t1]
    IN IF runHide THEN [a EXCEPT !.s = l1 \/ ~m1] ELSE a

\* Variant: the second effect depends on [minTimeElapsed] alone.
Commit_timerOnly(same, q0, l0, m0, q1, l1, m1, s1, t1) ==
    LET runQuery == ~same \/ q1 # q0
        runHide == ~same \/ m1 # m0
        a == IF runQuery
             THEN IF q1 # "" THEN [s |-> TRUE, m |-> FALSE, t |-> TRUE]
                  ELSE [s |-> s1, m |-> m1, t |-> FALSE]
             ELSE [s |-> s1, m |-> m1, t |-> t1]
    IN IF runHide /\ ~l1 /\ m1 THEN [a EXCEPT !.s = FALSE] ELSE a

Commit(same, q0, l0, m0, q1, l1, m1, s1, t1) ==
    LET runQuery == ~same \/ q1 # q0
        runHide == ~same \/ l1 # l0 \/ m1 # m0
        a == IF runQuery
             THEN IF q1 # "" THEN [s |-> TRUE, m |-> FALSE, t |-> TRUE]
                  ELSE [s |-> s1, m |-> m1, t |-> FALSE]
             ELSE [s |-> s1, m |-> m1, t |-> t1]
    IN IF runHide /\ ~l1 /\ m1 THEN [a EXCEPT !.s = FALSE] ELSE a

\* The loader after a callback that leaves route p1 with query q1, cache c1,
\* and set minTimeElapsed to m1 and the timer to t1.  The home page has no
\* loader: its variables rest at the useState defaults.
Loader(p1, q1, c1, m1, t1) ==
    LET same == p1 = page
    IN IF p1 = "home" THEN [s |-> TRUE, m |-> FALSE, t |-> FALSE]
       ELSE IF same
            THEN Commit(TRUE, query, IsLoading(cache, page, query), minTimeElapsed,
                        q1, IsLoading(c1, p1, q1), m1, showLoader, t1)
            ELSE Commit(FALSE, query, FALSE, FALSE,
                        q1, IsLoading(c1, p1, q1), FALSE, TRUE, FALSE)

SetLoader(r) ==
    /\ showLoader' = r.s
    /\ minTimeElapsed' = r.m
    /\ timer' = r.t

\* A callback that changed the cache only.
CacheChanged(c1) == SetLoader(Loader(page, query, c1, minTimeElapsed, timer))

\* The callback of this step, recorded for the submissions of a query and for
\* the successes of mutations; every other callback records Other.
Other == [op |-> "-", arg |-> "", effects |-> <<>>]
Did(op, arg, effects) ==
    last' = IF op \in {"search", "success"}
            THEN [op |-> op, arg |-> arg, effects |-> effects] ELSE Other

\* ------------------------------------------------------------ navigation

\* The route changes to page p1 with query q1 (navigate, a link, or the
\* browser's back and forward).  A page of another type is mounted anew, with
\* its own useAuth and mutation observers; the same page type keeps its
\* component and only moves its useSearch observer to the new key.  Without
\* a query SearchResultPage renders null: an open RegisterModal unmounts,
\* and its useCreateUserItem observer with it.
Navigate(p1, q1, aged) ==
    LET same == p1 = page
        k == ObservedOf(p1, q1)
        r == Attach(cache[k], q1, dropped[k], aged)
        attach == k # NoKey /\ (~same \/ k # ObservedOf(page, query))
        c1 == IF attach THEN [cache EXCEPT ![k] = r.e] ELSE cache
    IN /\ page' = p1
       /\ query' = q1
       /\ cache' = c1
       /\ dropped' = IF attach THEN [dropped EXCEPT ![k] = r.n] ELSE dropped
       /\ SetLoader(Loader(p1, q1, c1, minTimeElapsed, timer))
       /\ isLoggedIn' = IF same THEN isLoggedIn ELSE FALSE
       /\ authPending' = IF same THEN authPending ELSE p1 # "home"
       /\ modal' = IF same THEN modal ELSE FALSE
       /\ observed' = IF ~same THEN [m \in Kinds |-> FALSE]
                      ELSE IF q1 = "" THEN [observed EXCEPT !["create"] = FALSE]
                      ELSE observed
       /\ UNCHANGED <<pending, parts>>

\* The search bar is on the home page, and on a search page below the loader
\* and below the register modal.
SearchBarShown == page = "home" \/ (query # "" /\ ~showLoader /\ ~modal)

\* SearchBar.handleSubmit / handleSuggestionClick -> handleSearch(newQuery):
\* navigate(`/search?q=...`), with a query that is not empty.  The age of
\* an entry is looked at only when it has data.
Search(q) ==
    /\ SearchBarShown
    /\ \E aged \in {FALSE, cache[QueryKey(q)].data # NoData} : Navigate("search", q, aged)
    /\ Did("search", q, <<>>)

\* The browser goes back or forward to a route of the application.
HistoryGo(p1, q1) ==
    /\ <<p1, q1>> # <<page, query>>
    /\ \E aged \in {FALSE, p1 # "home" /\ cache[QueryKey(q1)].data # NoData} :
          Navigate(p1, q1, aged)
    /\ Did("history", q1, <<>>)

\* The DAGU button and the Home link: navigate('/')
GoHome ==
    /\ page # "home" /\ query # "" /\ ~showLoader /\ ~modal
    /\ Navigate("home", "", FALSE)
    /\ Did("home", "", <<>>)

\* SearchResultPage: if (!query) { navigate('/'); return null; }
RedirectHome ==
    /\ page = "search" /\ query = ""
    /\ Navigate("home", "", FALSE)
    /\ Did("redirect", "", <<>>)

\* The minimum-loading timer fires: setMinTimeElapsed(true)
TimerFires ==
    /\ timer
    /\ SetLoader(Loader(page, query, cache, TRUE, FALSE))
    /\ Did("timer", query, <<>>)
    /\ UNCHANGED <<page, query, cache, dropped, isLoggedIn, authPending, modal,
                   pending, observed,
                   parts>>

\* useAuth: the auth check of this mount answers (or throws: b = FALSE).
AuthCheckResolves(b) ==
    /\ authPending
    /\ authPending' = FALSE
    /\ isLoggedIn' = b
    /\ Did("auth", "", <<>>)
    /\ UNCHANGED <<page, query, showLoader, minTimeElapsed, timer, cache, dropped,
                   modal, pending, observed,
                   parts>>

\* ------------------------------------------------------- search responses

\* The api.search call of a fetch for key k ends.  cur: the fetch is the
\* entry's running one; otherwise it was cancelled and its result is dropped.
\* ok: the call answered; otherwise it failed, and so did its retry
\* (retry: 1), which follows the failed call within the same fetch.  A
\* failure keeps the data; whether it also flags the entry as invalidated
\* depends on the release of the library (inv).
SearchResolves(k, cur, ok) ==
  \E inv \in {cache[k].isInvalidated, TRUE} :
    LET e == cache[k]
        e1 == IF ~cur THEN e
              ELSE IF ok
              THEN [e EXCEPT !.data = e.queryFn,
                             !.status = "success", !.fetchStatus = "idle",
                             !.isInvalidated = FALSE]
              ELSE [e EXCEPT !.status = "error", !.fetchStatus = "idle",
                             !.isInvalidated = inv]
        c1 == [cache EXCEPT ![k] = e1]
    IN /\ IF cur THEN e.fetchStatus = "fetching" ELSE dropped[k] > 0
       /\ cache' = c1
       /\ dropped' = IF cur THEN dropped ELSE [dropped EXCEPT ![k] = dropped[k] - 1]
       /\ CacheChanged(c1)
       /\ Did("response", k, <<>>)
       /\ UNCHANGED <<page, query, isLoggedIn, authPending, modal, pending,
                      observed,
                   parts>>

\* gcTime passed on an entry without observers that is not fetching.
Collect(k) ==
    /\ cache[k].exists /\ k # ObservedOf(page, query) /\ cache[k].fetchStatus = "idle"
    /\ cache' = [cache EXCEPT ![k] = Absent]
    /\ Did("gc", k, <<>>)
    /\ UNCHANGED <<page, query, showLoader, minTimeElapsed, timer, dropped,
                   isLoggedIn, authPending, modal, pending, observed,
                   parts>>

\* -------------------------------------------------------------- mutations

Cmd(c, a) == [c |-> c, a |-> a]

\* One statement of an onSuccess / onError handler, applied to the store.
Exec(s, cmd, act) ==
    CASE cmd = Cmd("invalidate", "userItems") -> InvalidateUserItems(s)
      [] cmd = Cmd("invalidate", "search") -> InvalidateSearch(s, act)
      [] cmd = Cmd("refetch", "search") -> RefetchSearch(s)
      [] cmd = Cmd("close", "modal") -> [s EXCEPT !.modal = FALSE]
      [] OTHER -> s

RECURSIVE Run(_, _, _)
Run(s, cmds, act) ==
    IF cmds = <<>> THEN s ELSE Run(Exec(s, Head(cmds), act), Tail(cmds), act)

\* useCreateUserItem: onSuccess
useCreateUserItem == <<Cmd("invalidate", "userItems"), Cmd("invalidate", "search")>>

\* Variant: a track-click that invalidates the search entries as well.
useTrackItemClick_search == <<Cmd("invalidate", "userItems"), Cmd("invalidate", "search")>>

\* useTrackItemClick: onSuccess
useTrackItemClick == <<Cmd("invalidate", "userItems")>>

\* useExtendUserItem: onSuccess
useExtendUserItem == <<Cmd("invalidate", "search"), Cmd("invalidate", "userItems")>>

\* useReportItem: onSuccess
useReportItem == <<Cmd("invalidate", "search"), Cmd("invalidate", "userItems")>>

\* useUpdateItemPrice: onSuccess
useUpdateItemPrice == <<Cmd("invalidate", "search"), Cmd("invalidate", "userItems")>>

\* The onSuccess of the hook's useMutation options.
HookOnSuccess(kind) ==
    CASE kind = "create" -> useCreateUserItem
      [] kind = "click" -> useTrackItemClick
      [] kind = "extend" -> useExtendUserItem
      [] kind = "report" -> useReportItem
      [] kind = "price" -> useUpdateItemPrice

\* RegisterModal.handleSubmit: onSuccess
RegisterOnSuccess == <<Cmd("refetch", "search"), Cmd("alert", "registered"), Cmd("close", "modal")>>

\* handleExtendItem: onSuccess
ExtendOnSuccess == <<Cmd("alert", "extended")>>

\* handleReportItem: onSuccess(data), on data.is_deleted / data.is_under_review
ReportOnSuccess(outcome) == <<Cmd("alert", outcome)>>

\* handleUpdatePrice: onSuccess
PriceOnSuccess == <<Cmd("alert", "priced")>>

\* The onSuccess passed to mutate(); handleItemClick passes none.
MutateOnSuccess(kind, outcome) ==
    CASE kind = "create" -> RegisterOnSuccess
      [] kind = "click" -> <<>>
      [] kind = "extend" -> ExtendOnSuccess
      [] kind = "report" -> ReportOnSuccess(outcome)
      [] kind = "price" -> PriceOnSuccess

\* What the text of an error message may hold: the phrases the handlers
\* look for, and text they do not look for.
Phrases == {"already-registered", "not-allowed", "already-reported", "own-item",
            "invalid-price", "too-high", "text"}

Statuses == {400, 401, 403, 404, 409, 500, 503}

\* The error a mutation rejects with (AxiosError): without a response, or
\* with the status of the response, and with the phrases of its body when
\* it has one (response.data, response.data.error).
Errors ==
    {[response |-> FALSE]}
    \cup [response : {TRUE}, status : Statuses, data : {FALSE}]
    \cup [response : {TRUE}, status : Statuses, data : {TRUE},
          body : {b \in SUBSET Phrases : Cardinality(b) <= MaxPhrases}]

\* axiosErr.response?.status === code
StatusIs(err, code) == err.response /\ err.status = code

\* axiosErr.response?.data?.error, {} when undefined or empty
ServerMsg(err) == IF err.response /\ err.data THEN err.body ELSE {}

\* alert(serverMsg || text)
AlertMsgOr(err, text) ==
    <<Cmd("alert", IF ServerMsg(err) # {} THEN "serverMsg" ELSE text)>>

\* handleExtendItem: onError
ExtendOnError(err) ==
    IF StatusIs(err, 401) THEN <<Cmd("alert", "login-required")>>
    ELSE IF StatusIs(err, 403) THEN <<Cmd("alert", "not-owner")>>
    ELSE IF StatusIs(err, 404) THEN <<Cmd("alert", "not-found")>>
    ELSE IF StatusIs(err, 500) THEN <<Cmd("alert", "server-error")>>
    ELSE IF ~err.response THEN <<Cmd("alert", "network-error")>>
    ELSE AlertMsgOr(err, "extend-failed")

\* handleReportItem: onError
ReportOnError(err) ==
    IF StatusIs(err, 400)
    THEN IF "already-reported" \in ServerMsg(err) THEN <<Cmd("alert", "already-reported")>>
         ELSE IF "own-item" \in ServerMsg(err) THEN <<Cmd("alert", "own-item")>>
         ELSE AlertMsgOr(err, "bad-request")
    ELSE IF StatusIs(err, 404) THEN <<Cmd("alert", "not-found")>>
    ELSE IF StatusIs(err, 500) THEN <<Cmd("alert", "server-error")>>
    ELSE IF ~err.response THEN <<Cmd("alert", "network-error")>>
    ELSE AlertMsgOr(err, "report-failed")

\* handleUpdatePrice: onError
PriceOnError(err) ==
    IF StatusIs(err, 400)
    THEN IF "invalid-price" \in ServerMsg(err) THEN <<Cmd("alert", "invalid-price")>>
         ELSE IF "too-high" \in ServerMsg(err) THEN <<Cmd("alert", "too-high")>>
         ELSE AlertMsgOr(err, "bad-request")
    ELSE IF StatusIs(err, 401) THEN <<Cmd("alert", "login-required")>>
    ELSE IF StatusIs(err, 404) THEN <<Cmd("alert", "not-found")>>
    ELSE IF StatusIs(err, 500) THEN <<Cmd("alert", "server-error")>>
    ELSE IF ~err.response THEN <<Cmd("alert", "network-error")>>
    ELSE AlertMsgOr(err, "price-failed")

\* RegisterModal.handleSubmit: onError.  errorMsg starts as the default and
\* is replaced when the response has data: by one of two fixed texts when
\* JSON.stringify(data) includes their phrase, else by the strings of data
\* joined, or a second default when there are none; alert(errorMsg).
RegisterOnError(err) ==
    IF ~(err.response /\ err.data) THEN <<Cmd("alert", "register-failed")>>
    ELSE IF "already-registered" \in err.body THEN <<Cmd("alert", "already-registered")>>
    ELSE IF "not-allowed" \in err.body THEN <<Cmd("alert", "not-allowed")>>
    ELSE IF err.body # {} THEN <<Cmd("alert", "messages")>>
    ELSE <<Cmd("alert", "check-input")>>

\* The onError passed to mutate(); handleItemClick passes none.
MutateOnError(kind, err) ==
    CASE kind = "create" -> RegisterOnError(err)
      [] kind = "click" -> <<>>
      [] kind = "extend" -> ExtendOnError(err)
      [] kind = "report" -> ReportOnError(err)
      [] kind = "price" -> PriceOnError(err)

\* The answers of a mutation that the success handlers tell apart.
Outcomes(kind) ==
    IF kind = "report" THEN {"deleted", "review", "reported"} ELSE {"ok"}

InFlight == pending["create"] + pending["click"] + pending["extend"]
            + pending["report"] + pending["price"]

\* mutation.mutate(...): a new request; the observer follows it alone.
MutationStarts(kind) ==
    /\ InFlight < MaxMutations
    /\ pending' = [pending EXCEPT ![kind] = pending[kind] + 1]
    /\ observed' = [observed EXCEPT ![kind] = TRUE]
    /\ Did("mutate", kind, <<>>)
    /\ UNCHANGED <<page, query, showLoader, minTimeElapsed, timer, cache, dropped,
                   isLoggedIn, authPending>>

\* mutate() of a handler whose arguments are not looked at.
Mutate(kind) == MutationStarts(kind) /\ UNCHANGED parts

\* The result page below the loader and below the register modal.
PageShown == page = "search" /\ query # "" /\ ~showLoader /\ ~modal

\* A search session: a result page with a query.
InSession == page \in {"search", "category"} /\ query # ""

\* Variant: a list that is blanked while the entry is in error.
AllItems_blanked == IF InSession /\ ~showLoader /\ ~IsError(cache, page, query)
                    THEN SearchData(cache, page, query) ELSE NoData

\* const allItems = data?.items || [], rendered when the loader is hidden.
AllItems == IF InSession /\ ~showLoader THEN SearchData(cache, page, query) ELSE NoData

\* {isError && (<div> ... </div>)}, rendered when the loader is hidden.
ErrorPanel == InSession /\ ~showLoader /\ IsError(cache, page, query)

\* The control that submits a mutation is rendered and enabled: the submit
\* button of the register modal (disabled={createUserItem.isPending}), a
\* card of the list, the extend button of an owner's card (isItemOwner is
\* false without login), the report modal of a user item, the price modal
\* (handlePriceClick: if (!isLoggedIn) return).
CanSubmit(kind) ==
    CASE kind = "create" -> modal /\ query # "" /\ ~observed["create"]
      [] kind = "click" -> PageShown /\ AllItems # NoData
      [] kind = "extend" -> PageShown /\ isLoggedIn /\ AllItems # NoData
      [] kind = "report" -> PageShown /\ AllItems # NoData
      [] kind = "price" -> PageShown /\ isLoggedIn /\ AllItems # NoData

\* The register buttons: if (!isLoggedIn) leave for /login, else open the modal.
OpenRegisterModal ==
    /\ PageShown /\ isLoggedIn
    /\ modal' = TRUE
    /\ Did("open", "", <<>>)
    /\ UNCHANGED <<page, query, showLoader, minTimeElapsed, timer, cache, dropped,
                   isLoggedIn, authPending, pending, observed,
                   parts>>

\* RegisterModal onClose: the modal and its useCreateUserItem observer unmount.
CloseRegisterModal ==
    /\ modal /\ query # ""
    /\ modal' = FALSE
    /\ observed' = [observed EXCEPT !["create"] = FALSE]
    /\ Did("close", "", <<>>)
    /\ UNCHANGED <<page, query, showLoader, minTimeElapsed, timer, cache, dropped,
                   isLoggedIn, authPending, pending,
                   parts>>

\* RegisterModal.handleSubmit; the submit button is disabled while
\* createUserItem.isPending.
SubmitCreate ==
    /\ CanSubmit("create")
    /\ Mutate("create")
    /\ UNCHANGED modal

\* handleItemClick: if ('id' in item && item.source !== 'naver') trackClick.mutate
ItemClick ==
    /\ CanSubmit("click")
    /\ Mutate("click")
    /\ UNCHANGED modal

\* ItemCard: the extend button is rendered for isOwner; handleExtendItem
ExtendItem ==
    /\ CanSubmit("extend")
    /\ Mutate("extend")
    /\ UNCHANGED modal

\* ItemCard: the report button is rendered for a user item that is not the
\* caller's (isItemOwner is false without login); handleReportItem
ReportItem ==
    /\ CanSubmit("report")
    /\ Mutate("report")
    /\ UNCHANGED modal

\* ItemCard.handlePriceClick / handlePriceSubmit with a valid price;
\* handleUpdatePrice
UpdatePrice ==
    /\ CanSubmit("price")
    /\ Mutate("price")
    /\ UNCHANGED modal

\* A mutation request answers.  cur: it is the request the observer follows,
\* so the callbacks passed to mutate() run after the hook's own.
Settles(kind, cur, cmds, op) ==
    LET s1 == Run(Store, cmds, Active)
    IN /\ pending[kind] > 0
       /\ IF cur THEN observed[kind]
                 ELSE pending[kind] > (IF observed[kind] THEN 1 ELSE 0)
       /\ s1.dropped[""] + s1.dropped["a"] + s1.dropped["b"] <= MaxDropped
       /\ cache' = s1.cache
       /\ dropped' = s1.dropped
       /\ modal' = s1.modal
       /\ pending' = [pending EXCEPT ![kind] = pending[kind] - 1]
       /\ observed' = IF cur THEN [observed EXCEPT ![kind] = FALSE] ELSE observed
       /\ CacheChanged(s1.cache)
       /\ Did(op, kind, cmds)
       /\ UNCHANGED <<page, query, isLoggedIn, authPending,
                   parts>>

\* Variant: the callbacks passed to mutate() run before the hook's own.
MutationSucceeds_callbacksFirst(kind, cur, outcome) ==
    Settles(kind, cur,
            (IF cur THEN MutateOnSuccess(kind, outcome) ELSE <<>>) \o HookOnSuccess(kind),
            "success")

\* A mutation request succeeds: the hook's onSuccess, then the one of mutate().
MutationSucceeds(kind, cur, outcome) ==
    Settles(kind, cur,
            HookOnSuccess(kind) \o (IF cur THEN MutateOnSuccess(kind, outcome) ELSE <<>>),
            "success")

\* A mutation request fails: no hook declares onError.
MutationFails(kind, cur) ==
    \E cmds \in IF cur THEN {MutateOnError(kind, err) : err \in Errors} ELSE {<<>>} :
        Settles(kind, cur, cmds, "failure")

\* ---------------------------------------------------------------- strings

\* A string is the sequence of its characters.
Str(chunks) ==
    LET RECURSIVE cat(_)
        cat(cs) == IF cs = <<>> THEN <<>> ELSE Head(cs) \o cat(Tail(cs))
    IN cat(chunks)

UpperCase == <<"A", "B", "C", "D", "E", "F", "G", "H", "I", "J", "K", "L", "M",
               "N", "O", "P", "Q", "R", "S", "T", "U", "V", "W", "X", "Y", "Z">>
LowerCase == <<"a", "b", "c", "d", "e", "f", "g", "h", "i", "j", "k", "l", "m",
               "n", "o", "p", "q", "r", "s", "t", "u", "v", "w", "x", "y", "z">>

\* String.prototype.toLowerCase
toLowerCase(s) ==
    [i \in 1..Len(s) |->
        IF \E j \in 1..26 : UpperCase[j] = s[i]
        THEN LowerCase[CHOOSE j \in 1..26 : UpperCase[j] = s[i]]
        ELSE s[i]]

\* String.prototype.includes
includes(s, t) ==
    \E i \in 1..(Len(s) - Len(t) + 1) : SubSeq(s, i, i + Len(t) - 1) = t

\* String.prototype.trim
RECURSIVE trimStart(_)
trimStart(s) == IF s # <<>> /\ Head(s) = " " THEN trimStart(Tail(s)) ELSE s
RECURSIVE trimEnd(_)
trimEnd(s) ==
    IF s # <<>> /\ s[Len(s)] = " " THEN trimEnd(SubSeq(s, 1, Len(s) - 1)) ELSE s
trim(s) == trimEnd(trimStart(s))

\* s.match(/^https?:\/\//)
startsWith(s, t) == Len(s) >= Len(t) /\ SubSeq(s, 1, Len(t)) = t
matchesScheme(s) ==
    \/ startsWith(s, <<"h", "t", "t", "p", ":", "/", "/">>)
    \/ startsWith(s, <<"h", "t", "t", "p", "s", ":", "/", "/">>)

\* ----------------------------------------------------------- detectSource

Sources == {"mule", "joonggonara", "danggn", "bunjang", "other"}

\* Variant: a cafe.naver.com link is joonggonara without a second token.
isJoonggonara_cafeAlone(lower) ==
    \/ includes(lower, <<"j", "o", "o", "n", "g", "g", "o", "n", "a", "r", "a">>)
    \/ includes(lower, <<"c", "a", "f", "e", ".", "n", "a", "v", "e", "r", ".", "c", "o", "m">>)

\* lower.includes('joonggonara') ||
\* (lower.includes('cafe.naver.com') && lower.includes('joon'))
isJoonggonara(lower) ==
    \/ includes(lower, <<"j", "o", "o", "n", "g", "g", "o", "n", "a", "r", "a">>)
    \/ (includes(lower, <<"c", "a", "f", "e", ".", "n", "a", "v", "e", "r", ".", "c", "o", "m">>)
        /\ includes(lower, <<"j", "o", "o", "n">>))

\* Variant: detectSource without toLowerCase.
detectSource_caseSensitive(url) ==
    LET lower == url
    IN IF includes(lower, <<"m", "u", "l", "e", ".", "c", "o", ".", "k", "r">>) THEN "mule"
       ELSE IF isJoonggonara(lower) THEN "joonggonara"
       ELSE IF \/ includes(lower, <<"d", "a", "a", "n", "g", "n", ".", "c", "o", "m">>)
               \/ includes(lower, <<"d", "a", "n", "g", "g", "n">>) THEN "danggn"
       ELSE IF includes(lower, <<"b", "u", "n", "j", "a", "n", "g", ".", "c", "o", ".", "k", "r">>) THEN "bunjang"
       ELSE "other"

\* function detectSource(url: string): string
detectSource(url) ==
    LET lower == toLowerCase(url)
    IN IF includes(lower, <<"m", "u", "l", "e", ".", "c", "o", ".", "k", "r">>) THEN "mule"
       ELSE IF isJoonggonara(lower) THEN "joonggonara"
       ELSE IF \/ includes(lower, <<"d", "a", "a", "n", "g", "n", ".", "c", "o", "m">>)
               \/ includes(lower, <<"d", "a", "n", "g", "g", "n">>) THEN "danggn"
       ELSE IF includes(lower, <<"b", "u", "n", "j", "a", "n", "g", ".", "c", "o", ".", "k", "r">>) THEN "bunjang"
       ELSE "other"

\* The pieces link texts are put together from: schemes, subdomains, the
\* vendor tokens in lower and mixed case, a token that is no vendor's, a
\* path and a blank.
Chunks ==
    {"https://", "http://", "www.", "m.", "mule.co.kr",
     "MULE.CO.KR", "joonggonara", "cafe.naver.com", "joon", "daangn.com",
     "Daangn.COM", "danggn", "bunjang.co.kr", "bunjang", "example.com",
     "/x", " "}

\* The characters of a piece.
Spell(c) ==
    CASE c = "https://" -> <<"h", "t", "t", "p", "s", ":", "/", "/">>
      [] c = "http://" -> <<"h", "t", "t", "p", ":", "/", "/">>
      [] c = "www." -> <<"w", "w", "w", ".">>
      [] c = "m." -> <<"m", ".">>
      [] c = "mule.co.kr" -> <<"m", "u", "l", "e", ".", "c", "o", ".", "k", "r">>
      [] c = "MULE.CO.KR" -> <<"M", "U", "L", "E", ".", "C", "O", ".", "K", "R">>
      [] c = "joonggonara" -> <<"j", "o", "o", "n", "g", "g", "o", "n", "a", "r", "a">>
      [] c = "cafe.naver.com" -> <<"c", "a", "f", "e", ".", "n", "a", "v", "e", "r", ".", "c", "o", "m">>
      [] c = "joon" -> <<"j", "o", "o", "n">>
      [] c = "daangn.com" -> <<"d", "a", "a", "n", "g", "n", ".", "c", "o", "m">>
      [] c = "Daangn.COM" -> <<"D", "a", "a", "n", "g", "n", ".", "C", "O", "M">>
      [] c = "danggn" -> <<"d", "a", "n", "g", "g", "n">>
      [] c = "bunjang.co.kr" -> <<"b", "u", "n", "j", "a", "n", "g", ".", "c", "o", ".", "k", "r">>
      [] c = "bunjang" -> <<"b", "u", "n", "j", "a", "n", "g">>
      [] c = "example.com" -> <<"e", "x", "a", "m", "p", "l", "e", ".", "c", "o", "m">>
      [] c = "/x" -> <<"/", "x">>
      [] c = " " -> <<" ">>

\* Link texts of up to n pieces.
Texts(n) == UNION {[1..m -> Chunks] : m \in 0..n}

\* The string a sequence of pieces spells.
Text(cs) == Str([i \in 1..Len(cs) |-> Spell(cs[i])])

\* ------------------------------------------------------ ItemCard discount

\* Math.round of the quotient num / den, den > 0: the nearest integer, a tie
\* going up.  The quotient is exact here; the code computes it in double
\* arithmetic, which is exact as well for the reference prices below.
MathRound(num, den) == (2 * num + den) \div (2 * den)

\* Variant: calculateDiscount that only guards the division by zero.
calculateDiscount_zeroOnly(price, referencePrice) ==
    IF referencePrice = 0 THEN 0
    ELSE IF referencePrice < 0
         THEN MathRound(100 * (price - referencePrice), 0 - referencePrice)
         ELSE MathRound(100 * (referencePrice - price), referencePrice)

\* function calculateDiscount(price, referencePrice)
calculateDiscount(price, referencePrice) ==
    IF referencePrice <= 0 THEN 0
    ELSE MathRound(100 * (referencePrice - price), referencePrice)

\* Variant: the client formula applied whenever a reference price is known.
Discount_recomputed(item, referencePrice) ==
    IF referencePrice # <<>> /\ referencePrice[1] # 0
    THEN calculateDiscount(item.lprice, referencePrice[1])
    ELSE IF "discount_rate" \in DOMAIN item THEN item.discount_rate ELSE 0

\* ItemCard: const discount = 'discount_rate' in item ? item.discount_rate
\*     : referencePrice ? calculateDiscount(item.lprice, referencePrice) : 0
\* referencePrice?: number is <<>> when undefined.
Discount(item, referencePrice) ==
    IF "discount_rate" \in DOMAIN item THEN item.discount_rate
    ELSE IF referencePrice # <<>> /\ referencePrice[1] # 0
         THEN calculateDiscount(item.lprice, referencePrice[1])
         ELSE 0

\* ---------------------------------------------------------- specification

Routes == {<<"home", "">>} \cup ({"search"} \X AllQueries) \cup ({"category"} \X Queries)

\* No function of a component is being looked at, no register form is open.
NoCall == [fn |-> "none"]
\* No card and no search bar is being looked at: their useState defaults.
Idle == [card |-> [showReportModal |-> FALSE, showPriceModal |-> FALSE, newPrice |-> <<>>],
         bar |-> [query |-> <<>>, timers |-> {}, requests |-> {}, suggestions |-> <<>>]]
PartsIdle ==
    /\ call = NoCall
    /\ result = <<>>
    /\ link = <<>>
    /\ detectedSource = "other"
    /\ request = <<>>
    /\ card = Idle.card
    /\ bar = Idle.bar

\* The application is loaded on route r, with an empty cache: the page
\* mounts, its observer builds and fetches the entry of its query.
Load(r) ==
        LET k == ObservedOf(r[1], r[2])
        IN /\ page = r[1]
           /\ query = r[2]
           /\ showLoader = TRUE
           /\ minTimeElapsed = FALSE
           /\ timer = (r[1] # "home" /\ r[2] # "")
           /\ cache = [q \in AllQueries |->
                         IF q = k THEN Attach(Absent, r[2], 0, FALSE).e ELSE Absent]
           /\ dropped = [q \in AllQueries |-> 0]
           /\ isLoggedIn = FALSE
           /\ authPending = (r[1] # "home")
           /\ modal = FALSE
           /\ pending = [m \in Kinds |-> 0]
           /\ observed = [m \in Kinds |-> FALSE]
           /\ last = Other

\* The application is loaded on the home page or on a page with a query; the
\* route /search without a query is followed in SpecEmpty.
Init == \E r \in Routes \ {<<"search", "">>} : Load(r) /\ PartsIdle

Next ==
    \/ \E q \in Queries : Search(q)
    \/ \E r \in Routes \ {<<"search", "">>} : HistoryGo(r[1], r[2])
    \/ GoHome
    \/ TimerFires
    \/ \E b \in BOOLEAN : AuthCheckResolves(b)
    \/ \E k \in Queries, cur \in BOOLEAN, ok \in BOOLEAN : SearchResolves(k, cur, ok)
    \/ \E k \in AllQueries : Collect(k)
    \/ OpenRegisterModal
    \/ CloseRegisterModal
    \/ SubmitCreate
    \/ ItemClick
    \/ ExtendItem
    \/ ReportItem
    \/ UpdatePrice
    \/ \E kind \in Kinds, cur \in BOOLEAN :
          \E outcome \in Outcomes(kind) : MutationSucceeds(kind, cur, outcome)
    \/ \E kind \in Kinds, cur \in BOOLEAN : MutationFails(kind, cur)

Spec == Init /\ [][Next]_vars

\* The search session alone: query changes, the timer and the network.
NextLoader ==
    \/ \E q \in Queries : Search(q)
    \/ \E r \in Routes : HistoryGo(r[1], r[2])
    \/ GoHome
    \/ RedirectHome
    \/ TimerFires
    \/ \E k \in Queries, cur \in BOOLEAN, ok \in BOOLEAN : SearchResolves(k, cur, ok)
    \/ \E k \in AllQueries : Collect(k)

\* The search page with and without a query, and the register modal, whose
\* onSuccess refetches every search entry.
NextEmpty ==
    \/ \E q \in Queries : Search(q)
    \/ \E q \in AllQueries : HistoryGo("search", q)
    \/ HistoryGo("home", "")
    \/ GoHome
    \/ RedirectHome
    \/ TimerFires
    \/ \E k \in Queries, cur \in BOOLEAN, ok \in BOOLEAN : SearchResolves(k, cur, ok)
    \/ \E k \in AllQueries : Collect(k)
    \/ \E b \in BOOLEAN : AuthCheckResolves(b)
    \/ OpenRegisterModal
    \/ CloseRegisterModal
    \/ SubmitCreate
    \/ \E cur \in BOOLEAN : MutationSucceeds("create", cur, "ok")
    \/ \E cur \in BOOLEAN : MutationFails("create", cur)

SpecEmpty == (\E q \in AllQueries : Load(<<"search", q>>) /\ PartsIdle) /\ [][NextEmpty]_vars

\* The minimum-loading timer, once set, fires unless it is cleared (setTimeout),
\* and a search fetch in flight settles: success, or error after the one
\* retry of the QueryClient defaults (retry: 1).
FairSpec ==
    /\ Init /\ [][NextLoader]_vars
    /\ WF_vars(TimerFires)
    /\ \A k \in Queries : WF_vars(\E ok \in BOOLEAN : SearchResolves(k, TRUE, ok))

\* ------------------------------------------------- the register form

\* The pieces typed into the link input of the register form.
LinkChunks == {" ", "https://", "http://", "MULE.CO.KR", "daangn.com"}

\* Variant: the link is sent as typed, blanks included.
finalLink_untrimmed(value) ==
    LET t == value
    IN IF t # <<>> /\ ~matchesScheme(t)
       THEN <<"h", "t", "t", "p", "s", ":", "/", "/">> \o t ELSE t

\* Variant: the scheme is prefixed without the match test.
finalLink_alwaysPrefixed(value) ==
    LET t == trim(value)
    IN IF t # <<>> THEN <<"h", "t", "t", "p", "s", ":", "/", "/">> \o t ELSE t

\* handleSubmit: let finalLink = link.trim(); if (finalLink &&
\* !finalLink.match(/^https?:\/\//)) finalLink = `https://${finalLink}`
finalLink(value) ==
    LET t == trim(value)
    IN IF t # <<>> /\ ~matchesScheme(t)
       THEN <<"h", "t", "t", "p", "s", ":", "/", "/">> \o t ELSE t

\* handleSubmit: const finalSource = detectSource(finalLink)
finalSource(value) == detectSource(finalLink(value))

\* The register modal has been opened on the results of query a (here on a
\* failed search), and nothing is typed yet.
InitForm ==
    /\ page = "search"
    /\ query = "a"
    /\ showLoader = FALSE
    /\ minTimeElapsed = TRUE
    /\ timer = FALSE
    /\ cache = [q \in AllQueries |->
                  IF q = "a" THEN [Absent EXCEPT !.exists = TRUE, !.queryFn = "a",
                                                 !.status = "error"]
                  ELSE Absent]
    /\ dropped = [q \in AllQueries |-> 0]
    /\ isLoggedIn = TRUE
    /\ authPending = FALSE
    /\ modal = TRUE
    /\ pending = [m \in Kinds |-> 0]
    /\ observed = [m \in Kinds |-> FALSE]
    /\ last = Other
    /\ PartsIdle

\* onChange={(e) => setLink(e.target.value)} to value v, and the effect on
\* [link]: setDetectedSource(detectSource(link)).
SetLink(v) ==
    /\ modal /\ query # ""
    /\ link' = v
    /\ detectedSource' = detectSource(Text(v))
    /\ UNCHANGED <<app, call, result, request, card, bar>>

\* A piece is typed at the end of the link.
TypeLink(c) == Len(link) < MaxTyped /\ SetLink(Append(link, c))

\* The last piece of the link is erased.
EraseLink == link # <<>> /\ SetLink(SubSeq(link, 1, Len(link) - 1))

\* RegisterModal.handleSubmit on a form whose required link is filled in.
SubmitForm ==
    /\ CanSubmit("create") /\ link # <<>>
    /\ MutationStarts("create")
    /\ request' = <<[link |-> finalLink(Text(link)), source |-> finalSource(Text(link))]>>
    /\ UNCHANGED <<modal, call, result, link, detectedSource, card, bar>>

NextForm ==
    \/ \E c \in LinkChunks : TypeLink(c)
    \/ EraseLink
    \/ SubmitForm
    \/ MutationSucceeds("create", TRUE, "ok")
    \/ MutationFails("create", TRUE)

SpecForm == InitForm /\ [][NextForm]_vars

\* ------------------------------------------------------------- useAuth

\* window.location.hostname
Hostnames == {"localhost", "127.0.0.1", "malcha.example"}

\* What fetch('/api/auth/check/') ends with: a response, OK or not, whose
\* body reports is_authenticated, or an exception (of fetch or of json()).
AuthAnswers ==
    [thrown : {FALSE}, ok : BOOLEAN, is_authenticated : BOOLEAN]
    \cup {[thrown |-> TRUE]}

\* A result page mounts on hostname h; the repository holds two definitions
\* of useAuth, with the localhost bypass and without it, and the build has
\* one of them.
InitAuth ==
    /\ \E r \in {"search", "category"} \X Queries : Load(r)
    /\ call \in [fn : {"useAuth"}, hostname : Hostnames, bypass : BOOLEAN]
    /\ result = <<>>
    /\ link = <<>>
    /\ detectedSource = "other"
    /\ request = <<>>
    /\ card = Idle.card
    /\ bar = Idle.bar

\* checkAuth ends and calls setState with isLoggedIn = b.
AuthSettles(b) ==
    /\ authPending
    /\ authPending' = FALSE
    /\ isLoggedIn' = b
    /\ Did("auth", "", <<>>)
    /\ UNCHANGED <<page, query, showLoader, minTimeElapsed, timer, cache, dropped,
                   modal, pending, observed, call, link, detectedSource, request,
                   card, bar>>

\* checkAuth on localhost or 127.0.0.1, bypass variant: setState({isLoggedIn:
\* true, ...}) and return, without a request.
AuthBypass ==
    /\ call.bypass /\ call.hostname \in {"localhost", "127.0.0.1"}
    /\ AuthSettles(TRUE)
    /\ UNCHANGED result

\* checkAuth: the request ends with answer a.
AuthAnswered(a) ==
    /\ ~(call.bypass /\ call.hostname \in {"localhost", "127.0.0.1"})
    /\ AuthSettles(IF a.thrown THEN FALSE
                   ELSE IF a.ok THEN a.is_authenticated ELSE FALSE)
    /\ result' = <<a>>

NextAuth ==
    \/ AuthBypass
    \/ \E a \in AuthAnswers : AuthAnswered(a)
    \/ TimerFires
    \/ \E ok \in BOOLEAN : SearchResolves(query, TRUE, ok)

SpecAuth == InitAuth /\ [][NextAuth]_vars

\* ------------------------------------------------------- one result card

\* The longest text of the price input.
MaxPriceLen == 2

\* /[0-9]/
isDigit(c) == c \in {"0", "1", "2", "3", "4", "5", "6", "7", "8", "9"}

\* Number.prototype.toString of an integer.
toString(n) ==
    LET chars == <<"0", "1", "2", "3", "4", "5", "6", "7", "8", "9">>
        RECURSIVE digitsOf(_)
        digitsOf(m) == IF m < 10 THEN <<chars[m + 1]>>
                       ELSE digitsOf(m \div 10) \o <<chars[(m % 10) + 1]>>
    IN IF n < 0 THEN <<"-">> \o digitsOf(0 - n) ELSE digitsOf(n)

\* parseInt(s, 10): blanks are skipped, then a sign, then the longest run
\* of digits; <<>> is NaN, <<n>> the integer n.
parseInt(s) ==
    LET chars == <<"0", "1", "2", "3", "4", "5", "6", "7", "8", "9">>
        digitValue(c) == (CHOOSE i \in 1..10 : chars[i] = c) - 1
        RECURSIVE digitRun(_)
        digitRun(u) == IF u # <<>> /\ isDigit(Head(u)) THEN <<Head(u)>> \o digitRun(Tail(u))
                       ELSE <<>>
        RECURSIVE valueOf(_)
        valueOf(ds) == IF ds = <<>> THEN 0
                       ELSE 10 * valueOf(SubSeq(ds, 1, Len(ds) - 1)) + digitValue(ds[Len(ds)])
        t == trimStart(s)
        signed == t # <<>> /\ Head(t) \in {"-", "+"}
        run == digitRun(IF signed THEN Tail(t) ELSE t)
    IN IF run = <<>> THEN <<>>
       ELSE IF signed /\ Head(t) = "-" THEN <<0 - valueOf(run)>> ELSE <<valueOf(run)>>

\* The items a search answer can hold: a MergedUserItem (id, source: string,
\* is_owner?) or a NaverItem (no id, source: 'naver'); a missing field is <<>>.
\* 'id' in item is it.id # <<>>.
CardItems ==
    [id : {<<1>>}, source : {"mule", "naver"}, is_owner : {<<>>, <<TRUE>>, <<FALSE>>},
     lprice : {0 - 5, 7}]
    \cup [id : {<<>>}, source : {"naver"}, is_owner : {<<>>}, lprice : {0 - 5, 7}]

\* const isUserItem = 'id' in item && source !== 'naver'
isUserItem(it) == it.id # <<>> /\ it.source # "naver"

\* isItemOwner: if (!isLoggedIn) return false; if ('is_owner' in item) return
\* item.is_owner; return false
isItemOwner(it) == isLoggedIn /\ it.is_owner = <<TRUE>>

\* onExtend={'id' in item ? () => handleExtendItem(item.id) : undefined}
onExtend(it) == it.id # <<>>

\* onReport={'id' in item && item.source !== 'naver' ? ... : undefined}
onReport(it) == it.id # <<>> /\ it.source # "naver"

\* onUpdatePrice={'id' in item && item.source !== 'naver' ? ... : undefined}
onUpdatePrice(it) == it.id # <<>> /\ it.source # "naver"

\* A shown result list holds the card of one item, for a visitor who is
\* logged in or not; the card's state is at its useState defaults.
InitCard ==
    /\ page = "search"
    /\ query = "a"
    /\ showLoader = FALSE
    /\ minTimeElapsed = TRUE
    /\ timer = FALSE
    /\ cache = [q \in AllQueries |->
                  IF q = "a" THEN [Absent EXCEPT !.exists = TRUE, !.queryFn = "a",
                                                 !.data = "a", !.status = "success"]
                  ELSE Absent]
    /\ dropped = [q \in AllQueries |-> 0]
    /\ isLoggedIn \in BOOLEAN
    /\ authPending = FALSE
    /\ modal = FALSE
    /\ pending = [m \in Kinds |-> 0]
    /\ observed = [m \in Kinds |-> FALSE]
    /\ last = Other
    /\ call \in [fn : {"ItemCard"}, item : CardItems]
    /\ result = <<>>
    /\ link = <<>>
    /\ detectedSource = "other"
    /\ request = <<>>
    /\ card = [showReportModal |-> FALSE, showPriceModal |-> FALSE,
               newPrice |-> toString(call.item.lprice)]
    /\ bar = Idle.bar

\* The card is on screen and no modal of it covers the page.
CardShown == PageShown /\ AllItems # NoData /\ ~card.showReportModal /\ ~card.showPriceModal

\* A handler of the card that issues no request.
Handled(name, c1) ==
    /\ card' = c1
    /\ result' = <<name>>
    /\ UNCHANGED <<app, call, link, detectedSource, request, bar>>

\* A handler of the card that ends in mutation.mutate(args).
Dispatched(name, kind, args, c1) ==
    /\ MutationStarts(kind)
    /\ card' = c1
    /\ result' = <<name>>
    /\ request' = <<[kind |-> kind, args |-> args]>>
    /\ UNCHANGED <<modal, call, link, detectedSource, bar>>

\* The link of the card, onClick={onClick}; handleItemClick: if ('id' in item
\* && call.item.source !== 'naver') trackClick.mutate(call.item.id)
CardClick ==
    /\ CardShown
    /\ IF call.item.id # <<>> /\ call.item.source # "naver"
       THEN Dispatched("handleItemClick", "click", call.item.id, card)
       ELSE Handled("handleItemClick", card)

\* {isOwner && (<button onClick={handleExtend}>)}; handleExtend: onExtend?.();
\* handleExtendItem: extendItem.mutate(itemId, ...)
CardExtend ==
    /\ CardShown /\ isItemOwner(call.item)
    /\ IF onExtend(call.item)
       THEN Dispatched("handleExtend", "extend", call.item.id, card)
       ELSE Handled("handleExtend", card)

\* {isUserItem && !isOwner && onReport && (<button onClick={handleReportClick}>)};
\* handleReportClick: setShowReportModal(true)
ReportClick ==
    /\ CardShown /\ isUserItem(call.item) /\ ~isItemOwner(call.item) /\ onReport(call.item)
    /\ Handled("handleReportClick", [card EXCEPT !.showReportModal = TRUE])

\* handleReportSubmit: onReport?.(reportReason); setShowReportModal(false);
\* handleReportItem: reportItem.mutate({ id: itemId, reason }, ...)
ReportSubmit ==
    /\ card.showReportModal
    /\ IF onReport(call.item)
       THEN Dispatched("handleReportSubmit", "report", call.item.id,
                       [card EXCEPT !.showReportModal = FALSE])
       ELSE Handled("handleReportSubmit", [card EXCEPT !.showReportModal = FALSE])

\* The cancel button and the backdrop of the report modal.
ReportCancel ==
    /\ card.showReportModal
    /\ Handled("closeReport", [card EXCEPT !.showReportModal = FALSE])

\* handlePriceClick: if (!isLoggedIn) { alert(...); return; }
\* setNewPrice(call.item.lprice.toString()); setShowPriceModal(true)
handlePriceClick(c) ==
    IF ~isLoggedIn THEN c
    ELSE [c EXCEPT !.newPrice = toString(call.item.lprice), !.showPriceModal = TRUE]

\* {isUserItem && onUpdatePrice && (<button onClick={handlePriceClick}>)}
PriceClick ==
    /\ CardShown /\ isUserItem(call.item) /\ onUpdatePrice(call.item)
    /\ Handled("handlePriceClick", handlePriceClick(card))

\* onChange={(e) => setNewPrice(e.target.value.replace(/[^0-9]/g, ''))},
\* after a character is typed at the end of the text or Backspace deletes
\* its last character.
PriceChange(key) ==
    LET value == IF key = "Backspace"
                 THEN SubSeq(card.newPrice, 1, Len(card.newPrice) - 1)
                 ELSE card.newPrice \o <<key>>
    IN /\ card.showPriceModal
       /\ IF key = "Backspace" THEN card.newPrice # <<>>
          ELSE Len(card.newPrice) < MaxPriceLen
       /\ Handled("onChange", [card EXCEPT !.newPrice = SelectSeq(value, isDigit)])

\* Variant: handlePriceSubmit that rejects only a text that is no number.
validPrice_anyNumber(price) == price # <<>>

\* handlePriceSubmit: if (isNaN(price) || price <= 0) { alert(...); return; }
validPrice(price) == price # <<>> /\ price[1] > 0

\* handlePriceSubmit: const price = parseInt(newPrice.replace(/,/g, ''), 10);
\* an invalid price returns before onUpdatePrice?.(price) and
\* setShowPriceModal(false); handleUpdatePrice: updatePrice.mutate({ id, price })
PriceSubmit ==
    LET price == parseInt(SelectSeq(card.newPrice, LAMBDA c : c # ","))
    IN /\ card.showPriceModal
       /\ IF ~validPrice(price) THEN Handled("handlePriceSubmit", card)
          ELSE IF onUpdatePrice(call.item)
          THEN Dispatched("handlePriceSubmit", "price", price[1],
                          [card EXCEPT !.showPriceModal = FALSE])
          ELSE Handled("handlePriceSubmit", [card EXCEPT !.showPriceModal = FALSE])

\* The cancel button and the backdrop of the price modal.
PriceCancel ==
    /\ card.showPriceModal
    /\ Handled("closePrice", [card EXCEPT !.showPriceModal = FALSE])

\* A request of the card answers; the list is refetched by the handlers'
\* invalidation and its answer arrives.
NextCard ==
    \/ CardClick
    \/ CardExtend
    \/ ReportClick
    \/ ReportSubmit
    \/ ReportCancel
    \/ PriceClick
    \/ \E key \in {"0", ",", "x", "Backspace"} : PriceChange(key)
    \/ PriceSubmit
    \/ PriceCancel
    \/ \E kind \in Kinds \ {"create"} :
          \E outcome \in Outcomes(kind) : MutationSucceeds(kind, TRUE, outcome)
    \/ \E kind \in Kinds \ {"create"} : MutationFails(kind, TRUE)
    \/ \E ok \in BOOLEAN : SearchResolves("a", TRUE, ok)

SpecCard == InitCard /\ [][NextCard]_vars

\* ------------------------------------------- the functions of a component

\* Item prices, with the one of the worked example.
Prices == 0..MaxPrice \cup {70000}

\* Reference prices: none, not positive, and positive ones for which the
\* quotient price / referencePrice is exact in double arithmetic, with the
\* one of the worked example.
ReferencePrices == {0 - 8, 0, 8, 16, 100000}

\* Server-sourced discount rates (MergedUserItem.discount_rate).
DiscountRates == {0 - 5, 0, 15}

\* The items an ItemCard renders: with a discount_rate field or without.
Items ==
    [lprice : Prices] \cup [lprice : Prices, discount_rate : DiscountRates]

\* Query texts: strings of blanks and two letters.
QueryTexts(n) == UNION {[1..m -> {" ", "a", "b"}] : m \in 0..n}

\* The q parameter as it stands in a URL: letters, %20 and +.
UrlTexts(n) == UNION {[1..m -> {"%20", "+", "a", "b"}] : m \in 0..n}

\* encodeURIComponent, on blanks and letters
encodeURIComponent(t) == [i \in 1..Len(t) |-> IF t[i] = " " THEN "%20" ELSE t[i]]

\* URLSearchParams.get: %20 and + are blanks
searchParamsGet(u) == [i \in 1..Len(u) |-> IF u[i] \in {"%20", "+"} THEN " " ELSE u[i]]

\* The ways a query reaches a result page: the search bar is submitted with
\* `value` typed, a suggestion (brand, name) is clicked, /search?q=... is
\* opened, or a category route /category/:brand/:model? is.
Arrivals ==
    [way : {"submit"}, value : QueryTexts(MaxQueryLen)]
    \cup [way : {"suggestion"}, brand : QueryTexts(1), name : QueryTexts(1)]
    \cup [way : {"url"}, q : UrlTexts(MaxQueryLen)]
    \cup [way : {"category"}, brand : QueryTexts(1) \ {<<>>}, model : QueryTexts(1)]

\* handleSearch(newQuery): navigate(/search?q= + encodeURIComponent(newQuery)),
\* read back by SearchResultPage: searchParams.get('q') || ''
handleSearch(newQuery) == searchParamsGet(encodeURIComponent(newQuery))

\* The query string the page hands to useSearch, <<>> when the arrival does
\* not submit one.
\*   SearchBar.handleSubmit: if (query.trim()) onSearch(query.trim())
\*   SearchBar.handleSuggestionClick: onSearch(brand + ' ' + name)
\*   SearchResultPage: searchParams.get('q') || ''
\*   CategoryPage: [brand, model, submodel].filter(Boolean).join(' ')
PageQuery(x) ==
    CASE x.way = "submit" ->
            IF trim(x.value) # <<>> THEN <<handleSearch(trim(x.value))>> ELSE <<>>
      [] x.way = "suggestion" -> <<handleSearch(x.brand \o <<" ">> \o x.name)>>
      [] x.way = "url" -> <<searchParamsGet(x.q)>>
      [] x.way = "category" ->
            <<IF x.model = <<>> THEN x.brand ELSE x.brand \o <<" ">> \o x.model>>

\* The key of the cache entry of an arrival's query.
KeyOfArrival(x) == IF PageQuery(x) = <<>> THEN <<>> ELSE <<QueryKey(PageQuery(x)[1])>>

\* The calls looked at: a function with its arguments.
Calls_useSearch == [fn : {"useSearch"}, first : Arrivals, second : Arrivals]
Calls_detectSource == [fn : {"detectSource"}, url : Texts(MaxChunks)]
Calls_calculateDiscount ==
    [fn : {"calculateDiscount"}, price : Prices, referencePrice : ReferencePrices]
Calls_Discount ==
    [fn : {"Discount"}, item : Items,
     referencePrice : {<<>>} \cup {<<r>> : r \in ReferencePrices}]
Calls_onError == [fn : {"onError"}, kind : Kinds, err : Errors]

\* One function is called with arguments of its domain.
InitCalls ==
    /\ Load(<<"home", "">>)
    /\ call \in Calls_detectSource \cup Calls_calculateDiscount
                \cup Calls_Discount \cup Calls_onError \cup Calls_useSearch
    /\ result = <<>>
    /\ link = <<>>
    /\ detectedSource = "other"
    /\ request = <<>>
    /\ card = Idle.card
    /\ bar = Idle.bar

\* The call returns v.
Returns(fn, v) ==
    /\ call.fn = fn /\ result = <<>>
    /\ result' = <<v>>
    /\ UNCHANGED <<app, call, link, detectedSource, request, card, bar>>

CallDetectSource ==
    call.fn = "detectSource" /\ Returns("detectSource", detectSource(Text(call.url)))

CallCalculateDiscount ==
    call.fn = "calculateDiscount"
    /\ Returns("calculateDiscount", calculateDiscount(call.price, call.referencePrice))

CallDiscount ==
    call.fn = "Discount" /\ Returns("Discount", Discount(call.item, call.referencePrice))

\* A mutation the component still observes rejects with call.err: the
\* alerts its onError raises.
CallOnError ==
    call.fn = "onError" /\ Returns("onError", MutateOnError(call.kind, call.err))

\* Two queries arrive: the keys of their cache entries.
CallUseSearch ==
    call.fn = "useSearch"
    /\ Returns("useSearch", [first |-> KeyOfArrival(call.first),
                             second |-> KeyOfArrival(call.second)])

NextCalls ==
    \/ CallUseSearch
    \/ CallDetectSource
    \/ CallCalculateDiscount
    \/ CallDiscount
    \/ CallOnError

SpecCalls == InitCalls /\ [][NextCalls]_vars

\* --------------------------------------------------------- the search bar

\* The most autocomplete requests in flight at once.
MaxRequests == 2

\* Variant: an effect without the cleanup.
cleanup_none(timers, q) == timers

\* return () => clearTimeout(timer): the cleanup of the effect that ran for
\* the input q clears the timer that run has set.
cleanup(timers, q) == timers \ {q}

\* The effect on [query, showSuggestions] (showSuggestions is true at every
\* use of the bar) for the input q: an input that is empty after trim
\* empties the suggestions and sets no timer, another one sets its timer.
debounce(b, q) ==
    IF trim(q) = <<>> THEN [b EXCEPT !.query = q, !.suggestions = <<>>]
    ELSE [b EXCEPT !.query = q, !.timers = b.timers \cup {q}]

\* A page mounts its bar: useState(initialValue), no suggestions, and the
\* effect runs for the initial input.  suggestions is <<>> for an empty list
\* and <<t>> for the instruments found for the search term t.
InitBar ==
    /\ \E r \in Routes : Load(r)
    /\ call = NoCall
    /\ result = <<>>
    /\ link = <<>>
    /\ detectedSource = "other"
    /\ request = <<>>
    /\ card = Idle.card
    /\ bar = debounce(Idle.bar, IF query = "" THEN <<>> ELSE <<query>>)

\* onChange={(e) => setQuery(e.target.value)}, or setQuery(searchTerm) of
\* handleSuggestionClick, with a new input v: the cleanup of the last effect
\* run, then the effect for v.
SetQuery(v) ==
    /\ v # bar.query
    /\ bar' = debounce([bar EXCEPT !.timers = cleanup(bar.timers, bar.query)], v)
    /\ UNCHANGED <<app, call, result, link, detectedSource, request, card>>

\* The timer set for the input q fires after 300 ms: getInstruments({ search:
\* trimmedQuery }) is called.
DebounceFires(q) ==
    /\ q \in bar.timers
    /\ Cardinality(bar.requests \cup {trim(q)}) <= MaxRequests
    /\ bar' = [bar EXCEPT !.timers = bar.timers \ {q},
                          !.requests = bar.requests \cup {trim(q)}]
    /\ UNCHANGED <<app, call, result, link, detectedSource, request, card>>

\* The request for the term t answers: setSuggestions(results.slice(0, 6)),
\* with instruments (found) or with an empty list.
InstrumentsArrive(t, found) ==
    /\ t \in bar.requests
    /\ bar' = [bar EXCEPT !.requests = bar.requests \ {t},
                          !.suggestions = IF found THEN <<t>> ELSE <<>>]
    /\ UNCHANGED <<app, call, result, link, detectedSource, request, card>>

\* The request for the term t fails: catch (error) { console.error(...) }.
InstrumentsFail(t) ==
    /\ t \in bar.requests
    /\ bar' = [bar EXCEPT !.requests = bar.requests \ {t}]
    /\ UNCHANGED <<app, call, result, link, detectedSource, request, card>>

\* The inputs of the bar: empty, a blank, and texts of the letters a and b
\* with and without a blank at the end.
NextBar ==
    \/ \E v \in {<<>>, <<" ">>, <<"a">>, <<"a", " ">>, <<"b">>, <<"a", "b">>} : SetQuery(v)
    \/ \E q \in bar.timers : DebounceFires(q)
    \/ \E t \in bar.requests, found \in BOOLEAN : InstrumentsArrive(t, found)
    \/ \E t \in bar.requests : InstrumentsFail(t)

SpecBar == InitBar /\ [][NextBar]_vars

\* ------------------------------------------------------------- the loader

\* C1: in every state of a search session the loader is visible exactly when
\* it is not the case that the active query is no longer loading and the
\* minimum-loading timer has fired.
LoaderInvariant ==
    InSession => (showLoader <=> ~(~IsLoading(cache, page, query) /\ minTimeElapsed))

\* C2: a step that changes the query of a search session to another non-empty
\* query resets minTimeElapsed, restarts the timer and shows the loader, and
\* the loader stays visible while that timer is pending.
QueryChangeRestartsLoader ==
    /\ [][(page' \in {"search", "category"} /\ query' # "" /\ query' # query)
            => (showLoader' /\ ~minTimeElapsed' /\ timer')]_vars
    /\ [](InSession /\ timer => showLoader)

\* C3: submitting the query of the result page once more, its result being
\* cached, shows the loader again and starts a new minimum-loading timer.
ResubmissionShowsLoader ==
    [][(/\ page = "search" /\ SearchData(cache, page, query) # NoData
        /\ last'.op = "search" /\ last'.arg = query)
        => (showLoader' /\ ~minTimeElapsed' /\ timer')]_vars

\* ---------------------------------------------------------- the query cache

\* C4: at most one api.search call is outstanding for each query key.
AtMostOneCallPerKey == \A k \in Queries : Calls(k) <= 1

\* C5: whatever the order in which responses arrive, an entry holds the
\* response to its own query or nothing, and the result set of the page is
\* the one of the current query or empty.
RenderedIsCurrent ==
    /\ \A k \in Queries : cache[k].data \in {NoData, k}
    /\ (InSession => SearchData(cache, page, query) \in {NoData, query})
    /\ (InSession => AllItems \in {NoData, query})

\* B's result is rendered while the call of the superseded query A is still
\* outstanding.
RenderedIsCurrentWitness ==
    /\ page = "search" /\ query = "b" /\ ~showLoader /\ AllItems = "b"
    /\ cache["a"].fetchStatus = "fetching" /\ cache["a"].data = NoData

\* C6: an entry that holds data keeps holding data through every step, the
\* start of a refetch included, for as long as the entry exists.
StaleWhileRevalidate ==
    [][\A k \in Queries :
          (cache[k].data # NoData /\ cache'[k].exists) => cache'[k].data # NoData]_vars

\* The rendered entry is being refetched after an invalidation.
StaleWhileRevalidateWitness ==
    /\ InSession /\ ~showLoader /\ AllItems # NoData
    /\ cache[Active].fetchStatus = "fetching" /\ cache[Active].isInvalidated

\* C7: a fetch that fails on an entry with data records the error and leaves
\* the data as it was, and the rendered list with it.
FailureKeepsData ==
    [][\A k \in Queries :
          (/\ cache[k].data # NoData /\ cache[k].fetchStatus = "fetching"
           /\ cache'[k].fetchStatus = "idle" /\ cache'[k].status # "success")
          => (/\ cache'[k].status = "error"
              /\ cache'[k].data = cache[k].data
              /\ (k = Active => AllItems' = AllItems))]_vars

\* The list is rendered from an entry whose refetch failed.
FailureKeepsDataWitness ==
    /\ InSession /\ AllItems # NoData
    /\ cache[Active].status = "error" /\ cache[Active].fetchStatus = "idle"

\* C8: the error panel is rendered only for an entry without data.
ErrorPanelOnlyWithoutData == ErrorPanel => SearchData(cache, page, query) = NoData

\* -------------------------------------------------------------- mutations

\* C9: the success of create, extend, report and update-price invalidates
\* the search entries and the user-items entries, and flags every search
\* entry; the success of track-click invalidates the user-items entries
\* alone and leaves the search entries and their calls as they were.
InvalidationSets ==
    [][last'.op = "success" =>
          LET e == last'.effects
              inv == {e[i].a : i \in {j \in DOMAIN e : e[j].c = "invalidate"}}
          IN IF last'.arg = "click"
             THEN inv = {"userItems"} /\ cache' = cache /\ dropped' = dropped
             ELSE /\ inv = {"search", "userItems"}
                  /\ \A k \in Queries : cache[k].exists => cache'[k].isInvalidated]_vars

\* A report that deleted the item has flagged an entry no page observes.
InvalidationSetsWitness ==
    /\ last.op = "success" /\ last.arg = "report"
    /\ \E i \in DOMAIN last.effects : last.effects[i] = Cmd("alert", "deleted")
    /\ \E k \in Queries : k # Active /\ cache[k].data # NoData /\ cache[k].isInvalidated

\* C10: among the effects of a successful mutation, every alert comes after
\* the invalidation of the search entries.
InvalidationBeforeAlert ==
    last.op = "success" =>
        \A i \in DOMAIN last.effects :
            last.effects[i].c = "alert" =>
                \E j \in 1..(i - 1) : last.effects[j] = Cmd("invalidate", "search")

\* A create has succeeded with its modal open: invalidation, refetch, alert.
InvalidationBeforeAlertWitness ==
    /\ last.op = "success" /\ last.arg = "create"
    /\ \E i \in DOMAIN last.effects : last.effects[i].c = "alert"

\* C11: while a request of create, extend, report or update-price is in
\* flight, the control that submits the same mutation is not enabled.
NoResubmissionWhilePending ==
    \A kind \in Kinds \ {"click"} : pending[kind] > 0 => ~CanSubmit(kind)

\* C13: the success of a mutation that invalidates the search entries only
\* flags an entry without observer, starting no call for it, and
\* invalidating twice leaves such an entry as invalidating once does.
InvalidationWithoutSubscribers ==
    /\ [][(last'.op = "success" /\ last'.arg # "click") =>
            \A k \in Queries :
               (k # Active /\ cache[k].exists) =>
                   /\ cache'[k] = [cache[k] EXCEPT !.isInvalidated = TRUE]
                   /\ dropped'[k] = dropped[k]]_vars
    /\ [](LET once == InvalidateSearch(Store, Active)
              twice == InvalidateSearch(once, Active)
          IN \A k \in Queries \ {Active} :
                twice.cache[k] = once.cache[k] /\ twice.dropped[k] = once.dropped[k])

\* C14: on a page whose query stays the same, a hidden loader stays hidden
\* through every step.
LoaderStaysHidden ==
    [][(InSession /\ ~showLoader /\ page' = page /\ query' = query)
        => ~showLoader']_vars

\* The loader is hidden while the entry of the page, invalidated by a
\* mutation, is loading again.
LoaderStaysHiddenWitness ==
    /\ InSession /\ ~showLoader /\ IsLoading(cache, page, query)
    /\ last.op = "success"

\* ------------------------------------------------- mutation failures

\* C12: the failure of a mutation, whatever the error, raises exactly one
\* alert.
FailureRaisesOneAlert ==
    (call.fn = "onError" /\ result # <<>>) => Len(result[1]) = 1

\* ------------------------------------------------------- detectSource

\* Some piece of the typed text cs is one of ps.
Has(cs, ps) == \E i \in 1..Len(cs) : cs[i] \in ps

\* The vendor tokens, in any letter case, among the pieces of cs.
HasMule(cs) == Has(cs, {"mule.co.kr", "MULE.CO.KR"})
HasJoonggonara(cs) ==
    \/ Has(cs, {"joonggonara"})
    \/ Has(cs, {"cafe.naver.com"}) /\ Has(cs, {"joon", "joonggonara"})
HasDanggn(cs) == Has(cs, {"daangn.com", "Daangn.COM", "danggn"})
HasBunjang(cs) == Has(cs, {"bunjang.co.kr"})

\* A call of detectSource has returned.
Detected == call.fn = "detectSource" /\ result # <<>>

\* C15: detectSource returns one of the five tags for every text, the empty
\* one included; a text with mule.co.kr is mule, one with daangn.com and no
\* token checked earlier is danggn, one without a vendor token is other,
\* whatever the scheme, the subdomain, the path and the letter case.
DetectSourceTotal ==
    Detected =>
        /\ result[1] \in Sources
        /\ HasMule(call.url) => result[1] = "mule"
        /\ (Has(call.url, {"daangn.com", "Daangn.COM"})
              /\ ~HasMule(call.url) /\ ~HasJoonggonara(call.url))
             => result[1] = "danggn"
        /\ (~HasMule(call.url) /\ ~HasJoonggonara(call.url)
              /\ ~HasDanggn(call.url) /\ ~HasBunjang(call.url))
             => result[1] = "other"

\* C15 witness: an upper-case mule link behind a scheme and a subdomain has
\* been classified mule.
DetectSourceTotalWitness ==
    /\ Detected
    /\ call.url = <<"https://", "www.", "MULE.CO.KR">>
    /\ result = <<"mule">>

\* The first vendor, in the order of the checks, with a token in cs.
FirstVendor(cs) ==
    IF HasMule(cs) THEN "mule"
    ELSE IF HasJoonggonara(cs) THEN "joonggonara"
    ELSE IF HasDanggn(cs) THEN "danggn"
    ELSE IF HasBunjang(cs) THEN "bunjang"
    ELSE "other"

\* cs without its cafe.naver.com pieces.
WithoutCafe(cs) == SelectSeq(cs, LAMBDA c : c # "cafe.naver.com")

\* C16: of several vendors' tokens the one checked first, in the order
\* mule, joonggonara, danggn, bunjang, decides; cafe.naver.com makes a link
\* joonggonara only together with joon, and without it the link is
\* classified as if the cafe token were not there.
FirstVendorWins ==
    Detected =>
        /\ result[1] = FirstVendor(call.url)
        /\ (Has(call.url, {"cafe.naver.com"})
              /\ ~Has(call.url, {"joon", "joonggonara"}))
             => result[1] = detectSource(Text(WithoutCafe(call.url)))

\* C16 witness: a cafe.naver.com link without joon that names bunjang.co.kr
\* as well has been classified bunjang.
FirstVendorWinsWitness ==
    /\ Detected
    /\ call.url = <<"cafe.naver.com", "/x", "bunjang.co.kr">>
    /\ result = <<"bunjang">>

\* ------------------------------------------------- the register form

\* The typed pieces cs without the blanks at their two ends.
Stripped(cs) ==
    LET idx == {i \in 1..Len(cs) : cs[i] # " "}
    IN IF idx = {} THEN <<>>
       ELSE SubSeq(cs, CHOOSE i \in idx : \A j \in idx : i <= j,
                       CHOOSE i \in idx : \A j \in idx : j <= i)

\* The link to send for the typed pieces cs: without the blanks around it,
\* and behind https:// when it names no scheme itself.
NormalLink(cs) ==
    LET t == Stripped(cs)
    IN IF t = <<>> THEN <<>>
       ELSE IF t[1] \in {"https://", "http://"} THEN Text(t)
       ELSE Text(<<"https://">> \o t)

\* C17: whatever was typed before, a submission sends the normalized link
\* (trimmed, behind https:// unless it has a scheme) and, as its source,
\* detectSource of that normalized link.
SubmitSendsFinalSource ==
    [][pending'["create"] > pending["create"] =>
          /\ request' # <<>>
          /\ request'[1].link = NormalLink(link)
          /\ request'[1].source = detectSource(NormalLink(link))]_vars

\* C17 witness: a mule link typed in upper case behind a blank has been
\* submitted as https://MULE.CO.KR with source mule.
SubmitSendsFinalSourceWitness ==
    /\ pending["create"] = 1
    /\ link = <<" ", "MULE.CO.KR">>
    /\ request = <<[link |-> Text(<<"https://", "MULE.CO.KR">>), source |-> "mule"]>>

\* ---------------------------------------------------- ItemCard discount

\* The discount of an ItemCard has been computed.
Discounted == call.fn = "Discount" /\ result # <<>>

\* calculateDiscount has returned.
Calculated == call.fn = "calculateDiscount" /\ result # <<>>

\* C18: without a server-sourced discount the discount is 0 when the
\* reference price is absent, 0 or negative, and it is 30 for the reference
\* price 100000 and the price 70000.
NoReferenceNoDiscount ==
    /\ (Discounted /\ "discount_rate" \notin DOMAIN call.item) =>
          /\ (call.referencePrice = <<>> \/ call.referencePrice[1] <= 0)
               => result[1] = 0
          /\ (call.referencePrice = <<100000>> /\ call.item.lprice = 70000)
               => result[1] = 30
    /\ Calculated =>
          /\ call.referencePrice <= 0 => result[1] = 0
          /\ (call.referencePrice = 100000 /\ call.price = 70000) => result[1] = 30

\* C18 witness: the discount of an item without discount_rate has been
\* computed for a negative reference price.
NoReferenceNoDiscountWitness ==
    /\ Discounted
    /\ call.item = [lprice |-> 9]
    /\ call.referencePrice = <<0 - 8>>
    /\ result = <<0>>

\* The quotient num / den, den > 0, rounded to the nearest integer, a tie
\* going away from zero.
HalfAwayFromZero(num, den) ==
    IF num >= 0 THEN (2 * num + den) \div (2 * den)
    ELSE 0 - ((2 * (0 - num) + den) \div (2 * den))

\* C19: for a price >= 0 and a reference price > 0 calculateDiscount is
\* (1 - price / reference) * 100 rounded to the nearest integer, ties away
\* from zero.
RoundsHalfAwayFromZero ==
    (Calculated /\ call.price >= 0 /\ call.referencePrice > 0) =>
        result[1] = HalfAwayFromZero(100 * (call.referencePrice - call.price),
                                     call.referencePrice)

\* C20: the discount of an item with a server-sourced discount_rate is that
\* rate, whatever its price and the reference price.
ServerDiscountWins ==
    (Discounted /\ "discount_rate" \in DOMAIN call.item) =>
        result[1] = call.item.discount_rate

\* C20 witness: an item at half the reference price with the server's rate
\* 15 has been given the discount 15.
ServerDiscountWinsWitness ==
    /\ Discounted
    /\ call.item = [lprice |-> 4, discount_rate |-> 15]
    /\ call.referencePrice = <<8>>
    /\ calculateDiscount(4, 8) = 50
    /\ result = <<15>>

\* ------------------------------------------------------------- useAuth

\* C21: isLoggedIn is true only after the auth check was answered by an OK
\* response that reports is_authenticated true, on every host.
LoggedInOnlyByResponse ==
    isLoggedIn =>
        result = <<[thrown |-> FALSE, ok |-> TRUE, is_authenticated |-> TRUE]>>

\* ---------------------------------------------------------- empty query

\* C22: no api.search call is ever issued for the empty query, no call is
\* issued at all while the query of the page is empty, and a page with an
\* empty query renders neither results nor the error panel.
NoSearchForEmptyQuery ==
    /\ [](/\ Calls("") = 0
          /\ cache[""].data = NoData
          /\ (page # "home" /\ query = "") =>
                (AllItems = NoData /\ ~ErrorPanel /\ ~PageShown))
    /\ [][(page # "home" /\ query = "" /\ query' = "") =>
              \A k \in AllQueries : Calls(k)' <= Calls(k)]_vars

\* C22 witness: the search page stands on the empty query, its observer
\* attached to the entry of "", while the cache holds results of a query.
NoSearchForEmptyQueryWitness ==
    /\ page = "search" /\ query = ""
    /\ cache[""].exists /\ cache[""].fetchStatus = "idle"
    /\ cache["a"].data # NoData

\* ------------------------------------------------- failure categories

\* The category a fixed alert text tells the user; the texts made from the
\* response body and the per-mutation defaults name none of the five.
CategoryOf(text) ==
    CASE text = "login-required" -> "Unauthenticated"
      [] text = "not-owner" -> "Forbidden"
      [] text = "not-found" -> "NotFound"
      [] text = "server-error" -> "ServerFault"
      [] text = "network-error" -> "NetworkUnreachable"
      [] OTHER -> "none"

\* The categories of the alerts a handler raised.
Categories(cmds) ==
    {CategoryOf(cmds[i].a) : i \in {j \in DOMAIN cmds : cmds[j].c = "alert"}}

\* The category the taxonomy gives an error, "none" where the claim names
\* none.
Taxonomy(err) ==
    IF ~err.response THEN "NetworkUnreachable"
    ELSE IF err.status >= 500 /\ err.status <= 599 THEN "ServerFault"
    ELSE IF err.status = 401 THEN "Unauthenticated"
    ELSE IF err.status = 403 THEN "Forbidden"
    ELSE IF err.status = 404 THEN "NotFound"
    ELSE "none"

\* C23: for each of the five mutations a failure without a response is
\* told as NetworkUnreachable, one with a 5xx status as ServerFault, 401 as
\* Unauthenticated, 403 as Forbidden and 404 as NotFound.
FailureCategoryAgrees ==
    (call.fn = "onError" /\ result # <<>> /\ Taxonomy(call.err) # "none") =>
        Categories(result[1]) = {Taxonomy(call.err)}

\* -------------------------------------------------------- cache entries

\* The query text of an arrival as the user or the route gave it.
GivenQuery(x) ==
    CASE x.way = "submit" -> x.value
      [] x.way = "suggestion" -> x.brand \o <<" ">> \o x.name
      [] x.way = "url" -> searchParamsGet(x.q)
      [] x.way = "category" ->
            IF x.model = <<>> THEN x.brand ELSE x.brand \o <<" ">> \o x.model

\* C24: two queries, however they reach a page, use the same cache entry
\* exactly when their trimmed strings are equal.
SameEntryIffSameTrimmed ==
    (call.fn = "useSearch" /\ result # <<>>
     /\ result[1].first # <<>> /\ result[1].second # <<>>) =>
        (result[1].first = result[1].second
         <=> trim(GivenQuery(call.first)) = trim(GivenQuery(call.second)))

RECURSIVE trimZeros(_)
trimZeros(t) == IF Len(t) > 1 /\ Head(t) = "0" THEN trimZeros(Tail(t)) ELSE t

\* A text of digits only that holds a digit other than 0: the texts that
\* stand for an integer greater than 0.
PositiveText(t) ==
    /\ t # <<>>
    /\ \A i \in 1..Len(t) : isDigit(t[i])
    /\ \E i \in 1..Len(t) : t[i] # "0"

\* C30: an update-price request is issued only by a logged-in user whose
\* price modal holds a text that stands for an integer greater than 0, and it
\* carries that integer; handlePriceSubmit closes the price modal only with
\* such a text, so after an invalid price no request is issued and the modal
\* stays open.
PriceOnlyWhenValid ==
    [][/\ pending'["price"] > pending["price"] =>
            /\ isLoggedIn /\ card.showPriceModal /\ PositiveText(card.newPrice)
            /\ request'[1].kind = "price" /\ request'[1].args > 0
            /\ toString(request'[1].args) = trimZeros(card.newPrice)
       /\ (card.showPriceModal /\ ~PositiveText(card.newPrice)
           /\ result' = <<"handlePriceSubmit">> /\ result # result') =>
            /\ pending' = pending /\ card' = card]_vars

\* An update-price request is in flight, the modal was opened again, and a
\* submit of the text 0 has left it open.
PriceOnlyWhenValidWitness ==
    /\ pending["price"] = 1 /\ request # <<>> /\ request[1].kind = "price"
    /\ isLoggedIn
    /\ result = <<"handlePriceSubmit">>
    /\ card.showPriceModal /\ card.newPrice = <<"0">>

\* C26: at most one debounce timer is pending, and it is the one of the
\* present input; an input that is empty after trim has none; an
\* autocomplete request is issued only by the timer of the present input, for
\* its trimmed text.
OneDebounceTimer ==
    /\ [](/\ Cardinality(bar.timers) <= 1
          /\ bar.timers \subseteq {bar.query}
          /\ trim(bar.query) = <<>> => bar.timers = {})
    /\ [][\A t \in bar.requests' :
             t \notin bar.requests =>
                 /\ bar.timers = {bar.query} /\ bar.timers' = {}
                 /\ bar.query' = bar.query /\ t = trim(bar.query)]_vars

\* The input a was replaced by b before its timer fired, and the request
\* for b is in flight.
OneDebounceTimerWitness ==
    /\ bar.query = <<"b">> /\ bar.requests = {<<"b">>} /\ bar.timers = {}
    /\ page = "search" /\ query = "a"

\* C27: the suggestion list belongs to the present input: it is empty, or it
\* holds the instruments found for the trimmed text of the input; the list
\* of an input that is empty after trim is empty.
SuggestionsOfLatestInput ==
    /\ bar.suggestions # <<>> => bar.suggestions[1] = trim(bar.query)
    /\ trim(bar.query) = <<>> => bar.suggestions = <<>>

\* C28: when the query changes only finitely often, a search session ends up
\* with the loader hidden for good.
LoaderEventuallyHidden ==
    (<>[][page' = page /\ query' = query]_vars) => <>[](InSession => ~showLoader)

\* After a change of the query the timer has fired and the fetch of the new
\* query has ended in error, and the loader is hidden.
LoaderEventuallyHiddenWitness ==
    /\ page = "search" /\ query = "b" /\ cache["a"].exists
    /\ ~showLoader /\ minTimeElapsed /\ ~timer
    /\ cache["b"].status = "error" /\ cache["b"].fetchStatus = "idle"

\* C29: the source detected for a link text is the source detected for its
\* normal form (trimmed, https:// put before a text without a scheme), and
\* the normal form of a normal form is itself.
NormalizationKeepsSource ==
    Detected =>
        /\ detectSource(finalLink(Text(call.url))) = result[1]
        /\ finalLink(finalLink(Text(call.url))) = finalLink(Text(call.url))

\* A link between blanks and without a scheme, which normalization changes
\* at both ends, has been classified.
NormalizationKeepsSourceWitness ==
    /\ Detected
    /\ call.url = <<" ", "Daangn.COM", " ">>
    /\ result = <<"danggn">>
    /\ finalLink(Text(call.url)) = Text(<<"https://", "Daangn.COM">>)

====
